---- MODULE Spec2Model ----
(***************************************************************************)
(* conan-py-build: the PEP 517 hooks build_sdist and build_wheel of        *)
(* src/src/conan_py_build/build.py as a state machine.                     *)
(*                                                                         *)
(* Python strings are modelled as sequences of one-character strings, so   *)
(* that startswith, endswith, "in", split, strip and glob matching are     *)
(* computed character by character, as the code computes them.  A path is  *)
(* such a string with "/" separators; the project tree is the set of the   *)
(* paths of its regular files, relative to the project root (a path that   *)
(* starts with "../" lies outside the root).                               *)
(***************************************************************************)
EXTENDS Integers, Sequences, FiniteSets, TLC

VARIABLES
    pyproject,            \* the parsed pyproject.toml: [project |-> ..., tool |-> ...]
    fs,                   \* the regular files of the file-system snapshot
    vfile,                \* what reading/parsing the version-file location yields
    build_dir,            \* config_settings["build-dir"], or None
    rebuilds,             \* how often pyproject.toml was edited and the hooks run again
    hook,                 \* the hook being run: "none", "sdist", "wheel", "read"
    pc,                   \* the position inside the running hook
    ran,                  \* the hooks that have returned or raised
    project_metadata,     \* the [project] dict of the running invocation
    version,              \* local `version` of the running hook
    name,                 \* local `name` of the running hook
    reads,                \* the paths _read_version_from_file has opened
    error,                \* per hook: the exception that ended it, or ""
    pkg_info_content,     \* build_sdist: pkg_info_content
    license_paths_sdist,  \* build_sdist: license_paths_sdist
    added_arcnames,       \* build_sdist: added_arcnames
    tar,                  \* build_sdist: the members written, [src, arcname, data]
    sdist_file,           \* the tarball in sdist_directory: "absent", "open", "partial", "complete"
    staging,              \* build_wheel: the files under base_dir/package
    metadata_content,     \* build_wheel: the text written to METADATA, or None
    wheel_file,           \* the wheel in wheel_directory: [built, name, version, members]
    read_result,          \* the value a bare _read_version_from_file call returned
    copy_call             \* a bare _copy_license_files_from_paths call: argument and result

vars == <<pyproject, fs, vfile, build_dir, rebuilds, hook, pc, ran, project_metadata, version, name,
          reads, error, pkg_info_content, license_paths_sdist, added_arcnames,
          tar, sdist_file, staging, metadata_content, wheel_file, read_result, copy_call>>

(***************************************************************************)
(* Bounds of the model.                                                    *)
(***************************************************************************)
MaxStmts == 2      \* top-level statements of a version-source file
MaxFiles == 3      \* optional files present in a project snapshot
MaxRebuilds == 1   \* edits of pyproject.toml followed by a new run of the hooks
MaxPaths == 2      \* paths in the list handed to a bare _copy_license_files_from_paths call

(***************************************************************************)
(* Python values.                                                          *)
(***************************************************************************)
None == <<"None">>                  \* None or an absent key, where a str may stand
NoList == <<>>                      \* None or an absent key, where a list may stand
NoText == <<>>                      \* no text written yet (a text is its lines)
Falsy(v) == v = None \/ v = <<>>    \* `not v` for v a str or None

(***************************************************************************)
(* The string literals of build.py and of the project snapshots.           *)
(***************************************************************************)
s_pyproject_toml == <<"p", "y", "p", "r", "o", "j", "e", "c", "t", ".", "t", "o", "m", "l">>
s_CMakeLists_txt == <<"C", "M", "a", "k", "e", "L", "i", "s", "t", "s", ".", "t", "x", "t">>
s_conanfile_py == <<"c", "o", "n", "a", "n", "f", "i", "l", "e", ".", "p", "y">>
s_cmake == <<"c", "m", "a", "k", "e">>
s_src == <<"s", "r", "c">>
s_include == <<"i", "n", "c", "l", "u", "d", "e">>
s_README_md == <<"R", "E", "A", "D", "M", "E", ".", "m", "d">>
s_README_rst == <<"R", "E", "A", "D", "M", "E", ".", "r", "s", "t">>
s_LICENSE == <<"L", "I", "C", "E", "N", "S", "E">>
s_pycache == <<"_", "_", "p", "y", "c", "a", "c", "h", "e", "_", "_">>
s_star_pyc == <<"*", ".", "p", "y", "c">>
s_star_pyo == <<"*", ".", "p", "y", "o">>
s_git == <<".", "g", "i", "t">>
s_gitignore == <<".", "g", "i", "t", "i", "g", "n", "o", "r", "e">>
s_build == <<"b", "u", "i", "l", "d">>
s_dist == <<"d", "i", "s", "t">>
s_star_egg_info == <<"*", ".", "e", "g", "g", "-", "i", "n", "f", "o">>
s_eggs == <<".", "e", "g", "g", "s">>
s_version == <<"v", "e", "r", "s", "i", "o", "n">>
s_unknown == <<"u", "n", "k", "n", "o", "w", "n">>
s_0_0_0 == <<"0", ".", "0", ".", "0">>
s_PKG_INFO == <<"P", "K", "G", "-", "I", "N", "F", "O">>
s_License_File == <<"L", "i", "c", "e", "n", "s", "e", "-", "F", "i", "l", "e", ":">>
s_Metadata_Version == <<"M", "e", "t", "a", "d", "a", "t", "a", "-", "V", "e", "r", "s", "i", "o", "n", ":", " ", "2", ".", "4">>
s_Name == <<"N", "a", "m", "e", ":", " ">>
s_Version == <<"V", "e", "r", "s", "i", "o", "n", ":", " ">>
s_Dynamic == <<"D", "y", "n", "a", "m", "i", "c", ":", " ">>
s_readme == <<"r", "e", "a", "d", "m", "e">>
s_init_py == <<"_", "_", "i", "n", "i", "t", "_", "_", ".", "p", "y">>
s_NOTICE == <<"N", "O", "T", "I", "C", "E">>
s_LICENSE_NOTICE == <<"L", "I", "C", "E", "N", "S", "E", ",", "N", "O", "T", "I", "C", "E">>
s_pkg_init == <<"s", "r", "c", "/", "a", "_", "b", "/", "_", "_", "i", "n", "i", "t", "_", "_", ".", "p", "y">>
s_pkg_pyc == <<"s", "r", "c", "/", "a", "_", "b", "/", "x", ".", "p", "y", "c">>
s_v_py == <<"v", ".", "p", "y">>
s_out_v_py == <<".", ".", "/", "v", ".", "p", "y">>
s_A_b == <<"A", "-", "b">>
s_1_0 == <<"1", ".", "0">>
s_src_star == <<"s", "r", "c", "/", "*", "/", "*">>
s_starstar_py == <<"*", "*", "/", "*", ".", "p", "y">>
s_missing_txt == <<"m", "i", "s", "s", "i", "n", "g", ".", "t", "x", "t">>
s_in_v_py == <<"s", "r", "c", "/", ".", ".", "/", "v", ".", "p", "y">>
s_dd_LICENSE == <<"s", "r", "c", "/", ".", ".", "/", "L", "I", "C", "E", "N", "S", "E">>
s_build_wheel == <<"b", "u", "i", "l", "d", "-", "w", "h", "e", "e", "l">>
s_src_a_b == <<"s", "r", "c", "/", "a", "_", "b">>
s_lib_a_b == <<"l", "i", "b", "/", "a", "_", "b">>
s_lib_c == <<"l", "i", "b", "/", "c">>
s_docs == <<"d", "o", "c", "s">>
s_out_other == <<".", ".", "/", "o", "t", "h", "e", "r">>
s_etc_motd == <<"/", "e", "t", "c", "/", "m", "o", "t", "d">>
s_LICENSE_star == <<"L", "I", "C", "E", "N", "S", "E", "*">>

(***************************************************************************)
(* Python str operations.                                                  *)
(***************************************************************************)
StartsWith(s, p) == Len(s) >= Len(p) /\ SubSeq(s, 1, Len(p)) = p

EndsWith(s, p) == Len(s) >= Len(p) /\ SubSeq(s, Len(s) - Len(p) + 1, Len(s)) = p

Contains(s, p) == \E i \in 1..(Len(s) - Len(p) + 1) : SubSeq(s, i, i + Len(p) - 1) = p

RECURSIVE SplitAcc(_, _, _)
SplitAcc(s, c, cur) ==
    IF s = <<>> THEN <<cur>>
    ELSE IF Head(s) = c THEN <<cur>> \o SplitAcc(Tail(s), c, <<>>)
    ELSE SplitAcc(Tail(s), c, Append(cur, Head(s)))

Split(s, c) == SplitAcc(s, c, <<>>)

RECURSIVE Join(_, _)
Join(segs, c) ==
    IF segs = <<>> THEN <<>>
    ELSE IF Len(segs) = 1 THEN segs[1]
    ELSE segs[1] \o <<c>> \o Join(Tail(segs), c)

RECURSIVE LStrip(_)
LStrip(s) == IF s /= <<>> /\ Head(s) = " " THEN LStrip(Tail(s)) ELSE s

RECURSIVE RStrip(_)
RStrip(s) == IF s /= <<>> /\ s[Len(s)] = " " THEN RStrip(SubSeq(s, 1, Len(s) - 1)) ELSE s

Strip(s) == RStrip(LStrip(s))

RECURSIVE Replace(_, _, _)
Replace(s, a, b) ==
    IF s = <<>> THEN <<>>
    ELSE (IF Head(s) = a THEN <<b>> ELSE <<Head(s)>>) \o Replace(Tail(s), a, b)

UpperChars == <<"A", "B", "C", "D", "E", "F", "G", "H", "I", "J", "K", "L", "M",
                "N", "O", "P", "Q", "R", "S", "T", "U", "V", "W", "X", "Y", "Z">>
LowerChars == <<"a", "b", "c", "d", "e", "f", "g", "h", "i", "j", "k", "l", "m",
                "n", "o", "p", "q", "r", "s", "t", "u", "v", "w", "x", "y", "z">>

LowerChar(c) ==
    IF \E i \in 1..Len(UpperChars) : UpperChars[i] = c
    THEN LowerChars[CHOOSE i \in 1..Len(UpperChars) : UpperChars[i] = c]
    ELSE c

Lower(s) == [i \in 1..Len(s) |-> LowerChar(s[i])]

Range(s) == {s[i] : i \in 1..Len(s)}

\* the elements of s in order, each kept at its first occurrence only
RECURSIVE Dedup(_)
Dedup(s) ==
    IF s = <<>> THEN <<>>
    ELSE LET r == Dedup(SubSeq(s, 1, Len(s) - 1))
         IN IF s[Len(s)] \in Range(r) THEN r ELSE Append(r, s[Len(s)])

RECURSIVE Flatten(_)
Flatten(ss) == IF ss = <<>> THEN <<>> ELSE Head(ss) \o Flatten(Tail(ss))

(***************************************************************************)
(* pathlib: pure paths and the file-system snapshot.                       *)
(***************************************************************************)
IsAbs(p) == StartsWith(p, <<"/">>)

\* PurePath.parts of a relative path: empty and "." segments are dropped, ".." is kept
Parts(p) == SelectSeq(Split(p, "/"), LAMBDA seg : seg /= <<>> /\ seg /= <<".">>)

\* Path(p).as_posix()
AsPosix(p) ==
    IF IsAbs(p) THEN <<"/">> \o Join(Parts(p), "/")
    ELSE IF Parts(p) = <<>> THEN <<".">>
    ELSE Join(Parts(p), "/")

\* Path.resolve() of root/<segs> in a tree without symlinks, as segments relative
\* to the root: ".." steps are collapsed; leading ".." segments remain when the
\* path leaves the root
RECURSIVE ResolveAcc(_, _)
ResolveAcc(segs, acc) ==
    IF segs = <<>> THEN acc
    ELSE IF Head(segs) = <<".", ".">>
         THEN IF acc /= <<>> /\ acc[Len(acc)] /= <<".", ".">>
              THEN ResolveAcc(Tail(segs), SubSeq(acc, 1, Len(acc) - 1))
              ELSE ResolveAcc(Tail(segs), Append(acc, Head(segs)))
         ELSE ResolveAcc(Tail(segs), Append(acc, Head(segs)))

Resolve(p) == ResolveAcc(Parts(p), <<>>)

\* resolved.relative_to(source_dir.resolve()) succeeds
InsideRoot(p) == ~IsAbs(p) /\ (Resolve(p) = <<>> \/ Resolve(p)[1] /= <<".", ".">>)

IsPrefix(a, b) == Len(a) <= Len(b) /\ SubSeq(b, 1, Len(a)) = a

\* (root / p).is_file(); root / p is p itself when p is absolute
IsFile(files, p) == IF IsAbs(p) THEN p \in files ELSE Join(Resolve(p), "/") \in files

\* (root / p).is_dir(): a directory is a proper prefix of some file's path
IsDir(files, p) ==
    /\ ~IsAbs(p)
    /\ \/ Resolve(p) = <<>>
       \/ \E f \in files : Len(Parts(f)) > Len(Resolve(p)) /\ IsPrefix(Resolve(p), Parts(f))

(***************************************************************************)
(* _read_version_from_file (build.py 79-98).                               *)
(* A version-source file is what opening and parsing it yields: "missing"  *)
(* (read_text raises OSError), "undecodable" (read_text raises             *)
(* UnicodeDecodeError, a ValueError: the bytes are not UTF-8),             *)
(* "syntaxerror" (ast.parse raises SyntaxError) or "ok" with the module's  *)
(* top-level statements.                                                   *)
(***************************************************************************)
VER == "__version__"

NameT(id) == [t |-> "Name", id |-> id]
OtherT == [t |-> "Tuple", id |-> "_"]
StrV(s) == [t |-> "Constant", py |-> "str", value |-> s]
NumV == [t |-> "Constant", py |-> "int", value |-> <<"1">>]
CallV == [t |-> "Call", py |-> "_", value |-> <<>>]
NoV == [t |-> "None", py |-> "_", value |-> <<>>]

Assign(targets, value) == [kind |-> "Assign", targets |-> targets, value |-> value]
AnnAssign(target, value) == [kind |-> "AnnAssign", targets |-> <<target>>, value |-> value]
OtherStmt == [kind |-> "Expr", targets |-> <<>>, value |-> NoV]

Stmts ==
    { Assign(<<NameT(VER)>>, StrV(<<"1">>)),          \* __version__ = "1"
      Assign(<<NameT(VER)>>, StrV(<<"2">>)),          \* __version__ = "2"
      Assign(<<NameT(VER)>>, StrV(<<>>)),             \* __version__ = ""
      Assign(<<NameT(VER)>>, NumV),                   \* __version__ = 1
      Assign(<<NameT(VER)>>, CallV),                  \* __version__ = f()
      Assign(<<NameT("x"), NameT(VER)>>, StrV(<<"2">>)),  \* x = __version__ = "2"
      Assign(<<NameT("x")>>, StrV(<<"2">>)),          \* x = "2"
      Assign(<<OtherT>>, StrV(<<"2">>)),              \* __version__, y = "2"
      AnnAssign(NameT(VER), StrV(<<"2">>)),           \* __version__: str = "2"
      AnnAssign(NameT(VER), NoV),                     \* __version__: str
      OtherStmt }                                     \* import, def, if, expression

RECURSIVE SeqsUpTo(_, _)
SeqsUpTo(S, n) ==
    IF n = 0 THEN {<<>>}
    ELSE LET shorter == SeqsUpTo(S, n - 1)
         IN shorter \cup {Append(s, x) : s \in shorter, x \in S}

Missing == [status |-> "missing", body |-> <<>>]
Undecodable == [status |-> "undecodable", body |-> <<>>]
SyntaxErr == [status |-> "syntaxerror", body |-> <<>>]
Parsed(body) == [status |-> "ok", body |-> body]

VersionFiles == {Missing, Undecodable, SyntaxErr} \cup {Parsed(b) : b \in SeqsUpTo(Stmts, MaxStmts)}

Returned(v) == [raised |-> "", value |-> v]
Raised(e) == [raised |-> e, value |-> None]

\* the for loop over tree.body, lines 85-98
RECURSIVE ScanBody(_)
ScanBody(body) ==
    IF body = <<>> THEN None
    ELSE LET node == Head(body)
             inspected ==
                 \/ node.kind = "Assign" /\ Len(node.targets) = 1
                 \/ node.kind = "AnnAssign" /\ node.value /= NoV
             target == node.targets[1]
         IN IF ~inspected THEN ScanBody(Tail(body))
            ELSE IF target.t = "Name" /\ target.id = VER
                 THEN IF node.value.t = "Constant" /\ node.value.py = "str"
                      THEN node.value.value
                      ELSE None
                 ELSE ScanBody(Tail(body))

_read_version_from_file(file) ==
    IF file.status \in {"missing", "syntaxerror"} THEN Returned(None)
    ELSE IF file.status = "undecodable" THEN Raised("UnicodeDecodeError")
    ELSE Returned(ScanBody(file.body))

(***************************************************************************)
(* _get_version_from_config (build.py 115-128) and _resolve_version        *)
(* (131-146).  `file` is what the version-file location yields when it is  *)
(* a file of the snapshot.                                                 *)
(***************************************************************************)
\* as _get_version_from_config, without the relative_to check of 121-127
GetVersionNoRootCheck(tool, files, file) ==
    LET version_file == tool.version_file
    IN IF Falsy(version_file)
       THEN [raised |-> "", value |-> None, reads |-> {}]
       ELSE LET resolved == Join(Resolve(version_file), "/")
                r == _read_version_from_file(IF resolved \in files THEN file ELSE Missing)
            IN [raised |-> r.raised, value |-> r.value, reads |-> {resolved}]

_get_version_from_config(tool, files, file) ==
    LET version_file == tool.version_file
    IN IF Falsy(version_file)
       THEN [raised |-> "", value |-> None, reads |-> {}]
       ELSE IF ~InsideRoot(version_file)
       THEN [raised |-> "VersionFileOutsideProject", value |-> None, reads |-> {}]
       ELSE LET resolved == Join(Resolve(version_file), "/")
                r == _read_version_from_file(IF resolved \in files THEN file ELSE Missing)
            IN [raised |-> r.raised, value |-> r.value, reads |-> {resolved}]

IsDynamicVersion(pm) == s_version \in Range(pm.dynamic)

\* as _resolve_version, without the raise of 138-142
ResolveVersionFallsBack(pm, tool, files, file) ==
    LET cfg == IF Falsy(pm.version)
               THEN _get_version_from_config(tool, files, file)
               ELSE [raised |-> "", value |-> pm.version, reads |-> {}]
    IN IF cfg.raised /= ""
       THEN [raised |-> cfg.raised, version |-> None, pm |-> pm, reads |-> cfg.reads]
       ELSE LET v == IF Falsy(cfg.value) THEN s_0_0_0 ELSE cfg.value
            IN [raised |-> "", version |-> v, pm |-> [pm EXCEPT !.version = v],
                reads |-> cfg.reads]

\* as _resolve_version, without the `or "0.0.0"` of 144
ResolveVersionNoDefault(pm, tool, files, file) ==
    LET cfg == IF Falsy(pm.version)
               THEN _get_version_from_config(tool, files, file)
               ELSE [raised |-> "", value |-> pm.version, reads |-> {}]
    IN IF cfg.raised /= ""
       THEN [raised |-> cfg.raised, version |-> None, pm |-> pm, reads |-> cfg.reads]
       ELSE IF Falsy(pm.version) /\ IsDynamicVersion(pm) /\ Falsy(cfg.value)
       THEN [raised |-> "VersionUnresolved", version |-> None, pm |-> pm, reads |-> cfg.reads]
       ELSE [raised |-> "", version |-> cfg.value, pm |-> [pm EXCEPT !.version = cfg.value],
             reads |-> cfg.reads]

\* as _resolve_version, without the write-back of 145
ResolveVersionNoWriteBack(pm, tool, files, file) ==
    LET cfg == IF Falsy(pm.version)
               THEN _get_version_from_config(tool, files, file)
               ELSE [raised |-> "", value |-> pm.version, reads |-> {}]
    IN IF cfg.raised /= ""
       THEN [raised |-> cfg.raised, version |-> None, pm |-> pm, reads |-> cfg.reads]
       ELSE IF Falsy(pm.version) /\ IsDynamicVersion(pm) /\ Falsy(cfg.value)
       THEN [raised |-> "VersionUnresolved", version |-> None, pm |-> pm, reads |-> cfg.reads]
       ELSE [raised |-> "", version |-> (IF Falsy(cfg.value) THEN s_0_0_0 ELSE cfg.value),
             pm |-> pm, reads |-> cfg.reads]

_resolve_version(pm, tool, files, file) ==
    LET version_is_dynamic == IsDynamicVersion(pm)
        cfg == IF Falsy(pm.version)
               THEN _get_version_from_config(tool, files, file)
               ELSE [raised |-> "", value |-> pm.version, reads |-> {}]
    IN IF cfg.raised /= ""
       THEN [raised |-> cfg.raised, version |-> None, pm |-> pm, reads |-> cfg.reads]
       ELSE IF Falsy(pm.version) /\ version_is_dynamic /\ Falsy(cfg.value)
       THEN [raised |-> "VersionUnresolved", version |-> None, pm |-> pm, reads |-> cfg.reads]
       ELSE LET v == IF Falsy(cfg.value) THEN s_0_0_0 ELSE cfg.value
            IN [raised |-> "", version |-> v, pm |-> [pm EXCEPT !.version = v],
                reads |-> cfg.reads]

(***************************************************************************)
(* _normalize_name (149-151): packaging's canonicalize_name lower-cases    *)
(* and turns each run of "-", "_" and "." into one "-"; then "-" -> "_".   *)
(***************************************************************************)
RECURSIVE CollapseRuns(_, _)
CollapseRuns(s, inRun) ==
    IF s = <<>> THEN <<>>
    ELSE IF Head(s) \in {"-", "_", "."}
         THEN (IF inRun THEN <<>> ELSE <<"-">>) \o CollapseRuns(Tail(s), TRUE)
         ELSE <<Head(s)>> \o CollapseRuns(Tail(s), FALSE)

canonicalize_name(n) == Lower(CollapseRuns(n, FALSE))

_normalize_name(n) == Replace(canonicalize_name(n), "-", "_")

(***************************************************************************)
(* Globbing.  FnMatch is fnmatch on one path segment with "*" and "?"      *)
(* (no pattern of the model holds a "[" class).  GlobSegs matches the      *)
(* segments of a pattern against the segments of a file's path; with       *)
(* globModule it follows glob.glob(recursive=True): a wildcard segment     *)
(* matches no dot-name and "**" also matches files; without, it follows    *)
(* pathlib.Path.glob: "**" matches directories only.                       *)
(***************************************************************************)
HasMagic(seg) == \E i \in 1..Len(seg) : seg[i] \in {"*", "?"}

RECURSIVE FnMatch(_, _)
FnMatch(pat, s) ==
    IF pat = <<>> THEN s = <<>>
    ELSE IF Head(pat) = "*"
         THEN FnMatch(Tail(pat), s) \/ (s /= <<>> /\ FnMatch(pat, Tail(s)))
    ELSE IF Head(pat) = "?"
         THEN s /= <<>> /\ FnMatch(Tail(pat), Tail(s))
    ELSE s /= <<>> /\ Head(s) = Head(pat) /\ FnMatch(Tail(pat), Tail(s))

SegMatch(pseg, seg, globModule) ==
    IF ~HasMagic(pseg) THEN pseg = seg
    ELSE /\ globModule => (StartsWith(seg, <<".">>) => StartsWith(pseg, <<".">>))
         /\ FnMatch(pseg, seg)

RECURSIVE GlobSegs(_, _, _)
GlobSegs(ps, segs, globModule) ==
    IF ps = <<>> THEN segs = <<>>
    ELSE IF Head(ps) = <<"*", "*">>
         THEN \/ GlobSegs(Tail(ps), segs, globModule)
              \/ /\ segs /= <<>>
                 /\ globModule => ~StartsWith(Head(segs), <<".">>)
                 /\ ~globModule => Len(segs) > 1
                 /\ GlobSegs(ps, Tail(segs), globModule)
    ELSE segs /= <<>> /\ SegMatch(Head(ps), Head(segs), globModule)
                      /\ GlobSegs(Tail(ps), Tail(segs), globModule)

\* a ".." segment of a pattern is followed from an existing directory only
DotDotReachable(files, pattern) ==
    \A i \in 1..Len(Parts(pattern)) :
        (Parts(pattern)[i] = <<".", ".">> /\ i > 1 /\ Parts(pattern)[i - 1] /= <<".", ".">>) =>
            IsDir(files, Join(SubSeq(Parts(pattern), 1, i - 1), "/"))

\* the files a pattern (relative to the root) expands to
GlobFiles(files, pattern, globModule) ==
    {f \in files : /\ ~IsAbs(pattern)
                   /\ DotDotReachable(files, pattern)
                   /\ GlobSegs(Resolve(pattern), Parts(f), globModule)}

(***************************************************************************)
(* The order in which a directory scan (glob, rglob) lists files is the    *)
(* file system's; it is fixed for a snapshot.                              *)
(***************************************************************************)
OptionalFiles ==
    <<s_README_md, s_LICENSE, s_NOTICE, s_LICENSE_NOTICE, s_pkg_init, s_pkg_pyc, s_PKG_INFO>>

ScanOrder == <<s_pyproject_toml>> \o OptionalFiles \o <<s_v_py, s_out_v_py>>

Listed(S) == SelectSeq(ScanOrder, LAMBDA f : f \in S)

(***************************************************************************)
(* _get_license_files_patterns (259-268), _validate_license_files_patterns *)
(* (217-224).  license-files is a list of strings, empty when absent.      *)
(***************************************************************************)
_get_license_files_patterns(metadata) == metadata.license_files

\* TRUE when the validation raises
_validate_license_files_patterns(metadata) ==
    \E i \in 1..Len(_get_license_files_patterns(metadata)) :
        Contains(_get_license_files_patterns(metadata)[i], <<".", ".">>)

(***************************************************************************)
(* _get_core_metadata_rfc822 (185-198).  StandardMetadata (the library     *)
(* pyproject_metadata) validates the [project] table and renders it: the   *)
(* name is required, a field may not be both static and dynamic, every     *)
(* license-files pattern must stay inside the project and match a file;    *)
(* as_rfc822 writes one License-File line per matched file.  The text is   *)
(* the sequence of its lines.                                              *)
(***************************************************************************)
LicenseGlobError(files, patterns) ==
    \E i \in 1..Len(patterns) :
        \/ StartsWith(patterns[i], <<".", ".">>)
        \/ IsAbs(patterns[i])
        \/ {f \in GlobFiles(files, patterns[i], FALSE) : InsideRoot(f)} = {}

LicenseFilesOf(files, patterns) ==
    Listed(UNION {{f \in GlobFiles(files, patterns[i], FALSE) : InsideRoot(f)}
                  : i \in 1..Len(patterns)})

\* as StandardMetadata_as_rfc822, without the library's test that every
\* license-files pattern matches a file
StandardMetadataLenient(project, files) ==
    IF project.name = None \/ project.name = <<>> THEN Raised("ConfigurationError")
    ELSE IF s_version \in Range(project.dynamic) /\ project.version /= None
         THEN Raised("ConfigurationError")
    ELSE IF project.version = None THEN Raised("ConfigurationError")
    ELSE Returned(
             <<s_Metadata_Version, s_Name \o project.name, s_Version \o project.version>>
             \o [i \in 1..Len(project.dynamic) |-> s_Dynamic \o project.dynamic[i]]
             \o (LET lf == LicenseFilesOf(files, project.license_files)
                 IN [i \in 1..Len(lf) |-> s_License_File \o <<" ">> \o lf[i]]))

StandardMetadata_as_rfc822(project, files) ==
    IF project.name = None \/ project.name = <<>> THEN Raised("ConfigurationError")
    ELSE IF s_version \in Range(project.dynamic) /\ project.version /= None
         THEN Raised("ConfigurationError")
    ELSE IF project.version = None THEN Raised("ConfigurationError")
    ELSE IF LicenseGlobError(files, project.license_files)
         THEN Raised("ConfigurationError")
    ELSE Returned(
             <<s_Metadata_Version, s_Name \o project.name, s_Version \o project.version>>
             \o [i \in 1..Len(project.dynamic) |-> s_Dynamic \o project.dynamic[i]]
             \o (LET lf == LicenseFilesOf(files, project.license_files)
                 IN [i \in 1..Len(lf) |-> s_License_File \o <<" ">> \o lf[i]]))

_get_core_metadata_rfc822(metadata, files) ==
    LET dynamic == metadata.dynamic
        project == IF s_version \in Range(dynamic)
                   THEN [metadata EXCEPT !.dynamic = SelectSeq(dynamic, LAMBDA f : f /= s_version)]
                   ELSE metadata
    IN StandardMetadata_as_rfc822(project, files)

(***************************************************************************)
(* _parse_license_file_paths_from_metadata_text (201-214).                 *)
(***************************************************************************)
PartsOfValue(value) ==
    SelectSeq([i \in 1..Len(Split(value, ",")) |-> Strip(Split(value, ",")[i])],
              LAMBDA path : path /= <<>>)

_parse_license_file_paths_from_metadata_text(metadata_text) ==
    Flatten([i \in 1..Len(metadata_text) |->
                IF StartsWith(metadata_text[i], s_License_File)
                THEN PartsOfValue(Strip(SubSeq(metadata_text[i], 14, Len(metadata_text[i]))))
                ELSE <<>>])

(***************************************************************************)
(* build_sdist (482-610): the include/exclude rules and the manifest.      *)
(***************************************************************************)
default_include ==
    <<s_pyproject_toml, s_CMakeLists_txt, s_conanfile_py, s_cmake, s_src, s_include,
      s_README_md, s_README_rst, s_LICENSE>>

default_exclude ==
    <<s_pycache, s_star_pyc, s_star_pyo, s_git, s_gitignore, s_build, s_dist,
      s_star_egg_info, s_eggs>>

\* should_exclude (536-549) on a path whose location relative to source_dir is rel
should_exclude(rel, exclude_patterns) ==
    LET parts == Parts(rel)
        fname == parts[Len(parts)]
    IN \E i \in 1..Len(exclude_patterns) :
           IF StartsWith(exclude_patterns[i], <<"*">>)
           THEN EndsWith(fname, Tail(exclude_patterns[i]))
           ELSE fname = exclude_patterns[i] \/ exclude_patterns[i] \in Range(parts)

\* the files below the directory root/<dir>, as rglob("*") lists them
FilesBelow(files, dir) ==
    {f \in files : /\ Len(Parts(f)) > Len(Resolve(dir))
                   /\ IsPrefix(Resolve(dir), Parts(f))
                   /\ Parts(f)[Len(Resolve(dir)) + 1] /= <<".", ".">>}

\* one include rule (556-590): the (source path, path relative to the root used in
\* the archive name) pairs it yields, in order, after the exclude rules
GlobRule(files, pattern, exclude_patterns) ==
    LET hits == Listed({f \in GlobFiles(files, Strip(pattern), TRUE) : InsideRoot(f)})
        kept == SelectSeq(hits, LAMBDA f : ~should_exclude(f, exclude_patterns))
    IN [i \in 1..Len(kept) |-> [src |-> kept[i], rel |-> kept[i]]]

FileRule(files, pattern, exclude_patterns) ==
    <<[src |-> Join(Resolve(Strip(pattern)), "/"), rel |-> AsPosix(pattern)]>>

DirRule(files, pattern, exclude_patterns) ==
    LET dir == Strip(pattern)
        RelOf(f) == Join(Parts(dir) \o SubSeq(Parts(f), Len(Resolve(dir)) + 1, Len(Parts(f))), "/")
        below == Listed(FilesBelow(files, dir))
        kept == SelectSeq(below, LAMBDA f : ~should_exclude(RelOf(f), exclude_patterns))
    IN [i \in 1..Len(kept) |-> [src |-> kept[i], rel |-> RelOf(kept[i])]]

IncludeRule(files, pattern, exclude_patterns) ==
    IF Contains(pattern, <<"*">>) \/ Contains(pattern, <<"?">>)
    THEN GlobRule(files, pattern, exclude_patterns)
    ELSE IF IsFile(files, Strip(pattern)) THEN FileRule(files, pattern, exclude_patterns)
    ELSE IF IsDir(files, Strip(pattern)) THEN DirRule(files, pattern, exclude_patterns)
    ELSE <<>>

ArcName(sdist_name, rel) == sdist_name \o <<"/">> \o rel

\* as AddMember, without the `not in added_arcnames` test
AddMemberTwice(st, src, arcname) ==
    [added |-> st.added \cup {arcname},
     members |-> Append(st.members, [src |-> src, arcname |-> arcname])]

\* `if arcname not in added_arcnames: added_arcnames.add(arcname); tar.add(...)`
\* (571-574, 579-581, 587-590, 600-602); st is [added, members]
AddMember(st, src, arcname) ==
    IF arcname \in st.added THEN st
    ELSE [added |-> st.added \cup {arcname},
          members |-> Append(st.members, [src |-> src, arcname |-> arcname])]

RECURSIVE AddAll(_, _, _)
AddAll(st, pairs, sdist_name) ==
    IF pairs = <<>> THEN st
    ELSE AddAll(AddMember(st, Head(pairs).src, ArcName(sdist_name, Head(pairs).rel)),
                Tail(pairs), sdist_name)

\* the loop over include_patterns (556-590)
RECURSIVE IncludeLoop(_, _, _, _, _)
IncludeLoop(st, files, include_patterns, exclude_patterns, sdist_name) ==
    IF include_patterns = <<>> THEN st
    ELSE IncludeLoop(
             AddAll(st, IncludeRule(files, Head(include_patterns), exclude_patterns), sdist_name),
             files, Tail(include_patterns), exclude_patterns, sdist_name)

\* the loop over license_paths_sdist (592-602); stops at the first missing file
RECURSIVE LicenseLoop(_, _, _, _)
LicenseLoop(st, files, license_paths, sdist_name) ==
    IF license_paths = <<>> THEN [raised |-> "", st |-> st]
    ELSE IF ~IsFile(files, Head(license_paths))
         THEN [raised |-> "FileNotFoundError", st |-> st]
    ELSE LicenseLoop(
             AddMember(st, Join(Resolve(Head(license_paths)), "/"),
                       ArcName(sdist_name, Head(license_paths))),
             files, Tail(license_paths), sdist_name)

Generated == <<"<", "P", "K", "G", "-", "I", "N", "F", "O", ">">>   \* io.BytesIO(pkg_info_data)

SdistName(n, v) == n \o <<"-">> \o v

\* as SdistMd, with the normalized name build_wheel uses for its file names
SdistMdNormalizedName(pm, n, v) == [pm EXCEPT !.name = _normalize_name(n), !.version = v]

SdistMd(pm, n, v) == [pm EXCEPT !.name = n, !.version = v]     \* sdist_md, 522-524

(***************************************************************************)
(* build_wheel (310-347), _get_wheel_packages (370-380),                   *)
(* _check_wheel_package_path (350-367), _create_dist_info (271-294),       *)
(* _copy_license_files_from_paths (227-256).                               *)
(***************************************************************************)
s_core_so == <<"a", "_", "b", "/", "_", "c", "o", "r", "e", ".", "s", "o">>
s_dist_info == <<".", "d", "i", "s", "t", "-", "i", "n", "f", "o">>
s_METADATA == <<"M", "E", "T", "A", "D", "A", "T", "A">>
s_licenses == <<"l", "i", "c", "e", "n", "s", "e", "s">>

\* as _build_directory, with a temporary directory that is never removed
BuildDirectoryKept(dir, stage) == stage

\* _build_directory (172-182): what is left under base_dir/package when the context
\* manager exits, by return or by exception: the tree of a build-dir the caller
\* supplied stays, the temporary directory is removed
_build_directory(dir, stage) == IF Falsy(dir) THEN {} ELSE stage

\* "" when the package root passes, else the exception
_check_wheel_package_path(files, wheel_package) ==
    IF ~InsideRoot(wheel_package) THEN "PackageOutsideSource"
    ELSE IF ~IsDir(files, wheel_package) THEN "PackageNotADirectory"
    ELSE IF ~IsFile(files, Join(Resolve(wheel_package) \o <<s_init_py>>, "/"))
         THEN "PackageWithoutInit"
    ELSE ""

WheelPackageList(tool, n) ==
    IF tool.wheel_packages /= NoList
    THEN tool.wheel_packages
    ELSE <<s_src \o <<"/">> \o n>>

\* as _get_wheel_packages, yielding each root as soon as it has passed its check
GetWheelPackagesLazily(tool, files, n) ==
    LET pkgs == WheelPackageList(tool, n)
        bad == {i \in 1..Len(pkgs) : _check_wheel_package_path(files, pkgs[i]) /= ""}
        first == IF bad = {} THEN Len(pkgs) + 1 ELSE CHOOSE i \in bad : \A j \in bad : i <= j
    IN [raised |-> IF bad = {} THEN "" ELSE _check_wheel_package_path(files, pkgs[first]),
        dirs |-> [i \in 1..(first - 1) |-> Join(Resolve(pkgs[i]), "/")]]

\* every root is checked before the first copy: the list is built first (378, 380)
_get_wheel_packages(tool, files, n) ==
    LET pkgs == WheelPackageList(tool, n)
        bad == {i \in 1..Len(pkgs) : _check_wheel_package_path(files, pkgs[i]) /= ""}
    IN IF bad /= {}
       THEN [raised |-> _check_wheel_package_path(files, pkgs[CHOOSE i \in bad : \A j \in bad : i <= j]),
             dirs |-> <<>>]
       ELSE [raised |-> "", dirs |-> [i \in 1..Len(pkgs) |-> Join(Resolve(pkgs[i]), "/")]]

\* shutil.copytree(python_package_dir, base_dir/package/<dir name>) (396-399)
CopyTree(files, dir) ==
    LET d == Parts(dir)
    IN {Join(SubSeq(Parts(f), Len(d), Len(Parts(f))), "/") : f \in FilesBelow(files, dir)}

StagePackages(stage, files, dirs) ==
    stage \cup UNION {CopyTree(files, dirs[i]) : i \in 1..Len(dirs)}

DistInfoName(metadata) ==
    _normalize_name(IF metadata.name = None THEN s_unknown ELSE metadata.name)
    \o <<"-">> \o (IF metadata.version = None THEN s_0_0_0 ELSE metadata.version)
    \o s_dist_info

\* the copy loop of _copy_license_files_from_paths (237-256)
\* the copy loop without the relative_to(project_resolved) test
RECURSIVE CopyLicensesUnconfined(_, _, _, _)
CopyLicensesUnconfined(stage, dist_info_dir, files, license_paths) ==
    IF license_paths = <<>> THEN [raised |-> "", stage |-> stage]
    ELSE LET rel_path_str == Head(license_paths)
         IN IF Contains(rel_path_str, <<".", ".">>)
            THEN [raised |-> "LicensePathDotDot", stage |-> stage]
            ELSE IF ~IsFile(files, rel_path_str)
            THEN [raised |-> "FileNotFoundError", stage |-> stage]
            ELSE CopyLicensesUnconfined(
                     stage \cup {Join(<<dist_info_dir, s_licenses>> \o Resolve(rel_path_str), "/")},
                     dist_info_dir, files, Tail(license_paths))

RECURSIVE _copy_license_files_from_paths(_, _, _, _)
_copy_license_files_from_paths(stage, dist_info_dir, files, license_paths) ==
    IF license_paths = <<>> THEN [raised |-> "", stage |-> stage]
    ELSE LET rel_path_str == Head(license_paths)
         IN IF Contains(rel_path_str, <<".", ".">>)
            THEN [raised |-> "LicensePathDotDot", stage |-> stage]
            ELSE IF ~IsFile(files, rel_path_str)
            THEN [raised |-> "FileNotFoundError", stage |-> stage]
            ELSE IF ~InsideRoot(rel_path_str)
            THEN [raised |-> "LicenseOutsideProject", stage |-> stage]
            ELSE _copy_license_files_from_paths(
                     stage \cup {Join(<<dist_info_dir, s_licenses>> \o Resolve(rel_path_str), "/")},
                     dist_info_dir, files, Tail(license_paths))

\* _create_dist_info rendering the metadata text before it validates the patterns,
\* the order build_sdist has
CreateDistInfoRenderFirst(stage, metadata, files) ==
    LET dist_info_dir == DistInfoName(metadata)
        rendered == _get_core_metadata_rfc822(metadata, files)
        license_paths == _parse_license_file_paths_from_metadata_text(rendered.value)
        copied == _copy_license_files_from_paths(stage, dist_info_dir, files, license_paths)
    IN IF rendered.raised /= ""
       THEN [raised |-> rendered.raised, stage |-> stage, content |-> NoText]
       ELSE IF _get_license_files_patterns(metadata) /= <<>> /\ license_paths = <<>>
       THEN [raised |-> "NoLicenseFilesMatched", stage |-> stage, content |-> NoText]
       ELSE IF _validate_license_files_patterns(metadata)
       THEN [raised |-> "InvalidLicensePattern", stage |-> stage, content |-> NoText]
       ELSE IF copied.raised /= ""
       THEN [raised |-> copied.raised, stage |-> copied.stage, content |-> NoText]
       ELSE [raised |-> "",
             stage |-> copied.stage \cup {Join(<<dist_info_dir, s_METADATA>>, "/")},
             content |-> rendered.value]

_create_dist_info(stage, metadata, files) ==
    LET dist_info_dir == DistInfoName(metadata)
        rendered == _get_core_metadata_rfc822(metadata, files)
        license_paths == _parse_license_file_paths_from_metadata_text(rendered.value)
        copied == _copy_license_files_from_paths(stage, dist_info_dir, files, license_paths)
    IN IF _validate_license_files_patterns(metadata)
       THEN [raised |-> "InvalidLicensePattern", stage |-> stage, content |-> NoText]
       ELSE IF rendered.raised /= ""
       THEN [raised |-> rendered.raised, stage |-> stage, content |-> NoText]
       ELSE IF _get_license_files_patterns(metadata) /= <<>> /\ license_paths = <<>>
       THEN [raised |-> "NoLicenseFilesMatched", stage |-> stage, content |-> NoText]
       ELSE IF copied.raised /= ""
       THEN [raised |-> copied.raised, stage |-> copied.stage, content |-> NoText]
       ELSE [raised |-> "",
             stage |-> copied.stage \cup {Join(<<dist_info_dir, s_METADATA>>, "/")},
             content |-> rendered.value]

(***************************************************************************)
(* The projects and snapshots the hooks are run on.                        *)
(***************************************************************************)
Project(n, v, dyn, lic) == [name |-> n, version |-> v, dynamic |-> dyn, license_files |-> lic]

Tool(vf, inc, exc) ==
    [version_file |-> vf, sdist_include |-> inc, sdist_exclude |-> exc, wheel_packages |-> NoList]

\* version resolution: every combination of name, static version, dynamic list,
\* version-file location and content of that file
SampleVersionFiles ==
    {Missing, Undecodable, SyntaxErr, Parsed(<<>>),
     Parsed(<<Assign(<<NameT(VER)>>, StrV(<<"1">>))>>),
     Parsed(<<Assign(<<NameT(VER)>>, StrV(<<>>))>>),
     Parsed(<<Assign(<<NameT(VER)>>, NumV)>>)}

VersionScenario(n, v, dyn, vf, file) ==
    [pyproject |-> [project |-> Project(n, v, dyn, NoList), tool |-> Tool(vf, <<>>, <<>>)],
     vfile |-> file,
     fs |-> {s_pyproject_toml, s_pkg_init}
            \cup (IF vf /= None /\ file.status /= "missing"
                  THEN {Join(Resolve(vf), "/")} ELSE {})]

VersionScenarios ==
    {VersionScenario(n, v, dyn, None, Missing) :
        n \in {s_A_b, None}, v \in {None, s_1_0},
        dyn \in {NoList, <<s_version>>, <<s_readme>>}}
    \cup
    {VersionScenario(n, v, dyn, vf, file) :
        n \in {s_A_b, None}, v \in {None, s_1_0},
        dyn \in {NoList, <<s_version>>, <<s_readme>>},
        vf \in {s_v_py, s_out_v_py, s_in_v_py}, file \in SampleVersionFiles}

\* archive building: snapshots of at most MaxFiles optional files, tool include
\* and exclude rules, license-files patterns
IncludeChoices == {<<>>, <<s_src_star, s_PKG_INFO>>, <<s_NOTICE, s_starstar_py>>}
ExcludeChoices == {<<>>, <<s_README_md, s_NOTICE>>}
LicenseChoices ==
    {NoList, <<s_LICENSE>>, <<s_NOTICE>>, <<s_LICENSE_NOTICE>>, <<s_LICENSE_star>>,
     <<s_missing_txt>>}

Snapshots ==
    {{s_pyproject_toml} \cup S : S \in {T \in SUBSET Range(OptionalFiles) : Cardinality(T) <= MaxFiles}}

ArchiveScenarios ==
    {[pyproject |-> [project |-> Project(s_A_b, s_1_0, NoList, lic), tool |-> Tool(None, inc, exc)],
      vfile |-> Missing,
      fs |-> files] :
        lic \in LicenseChoices, inc \in IncludeChoices, exc \in ExcludeChoices,
        files \in Snapshots}

\* paths with a ".." segment: license-files patterns and include rules that name a
\* file through "src/.." or a file outside the project root
EscapeScenarios ==
    {[pyproject |-> [project |-> Project(s_A_b, s_1_0, NoList, lic), tool |-> Tool(None, inc, <<>>)],
      vfile |-> Missing,
      fs |-> {s_pyproject_toml, s_pkg_init, s_LICENSE} \cup files] :
        lic \in {NoList, <<s_dd_LICENSE>>, <<s_out_v_py>>, <<s_LICENSE, s_dd_LICENSE>>},
        inc \in {<<>>, <<s_out_v_py>>, <<s_dd_LICENSE>>},
        files \in {{}, {s_out_v_py}}}

NoWheel == [built |-> FALSE, name |-> None, version |-> None, members |-> {}]

\* no bare call of _copy_license_files_from_paths was made
NoCall == [called |-> FALSE, license_paths |-> <<>>, raised |-> "", stage |-> {}]

Idle ==
    /\ hook = "none"
    /\ pc = "idle"
    /\ ran = {}
    /\ project_metadata = Project(None, None, NoList, NoList)
    /\ version = None
    /\ name = None
    /\ reads = {}
    /\ error = [sdist |-> "", wheel |-> ""]
    /\ pkg_info_content = NoText
    /\ license_paths_sdist = <<>>
    /\ added_arcnames = {}
    /\ tar = <<>>
    /\ sdist_file = "absent"
    /\ staging = {}
    /\ metadata_content = NoText
    /\ wheel_file = NoWheel
    /\ read_result = Returned(None)
    /\ copy_call = NoCall

Init ==
    /\ \E sc \in VersionScenarios \cup ArchiveScenarios \cup EscapeScenarios :
           /\ pyproject = sc.pyproject
           /\ vfile = sc.vfile
           /\ fs = sc.fs
    /\ build_dir = None
    /\ rebuilds = 0
    /\ Idle

(***************************************************************************)
(* The hooks, step by step.                                                *)
(***************************************************************************)
Config == <<pyproject, fs, vfile, build_dir, rebuilds>>
SdistVars == <<pkg_info_content, license_paths_sdist, added_arcnames, tar, sdist_file>>
WheelVars == <<staging, metadata_content, wheel_file>>

\* an exception leaves the hook
Raise(h, e) ==
    /\ error' = [error EXCEPT ![h] = e]
    /\ hook' = "none"
    /\ pc' = "idle"
    /\ ran' = ran \cup {h}

\* the hook returns
Return(h) ==
    /\ hook' = "none"
    /\ pc' = "idle"
    /\ ran' = ran \cup {h}
    /\ UNCHANGED error

\* build_sdist 486-496: read [project], resolve the version
SdistStart ==
    /\ hook = "none" /\ "sdist" \notin ran
    /\ LET r == _resolve_version(pyproject.project, pyproject.tool, fs, vfile)
       IN /\ project_metadata' = r.pm
          /\ version' = r.version
          /\ reads' = reads \cup r.reads
          /\ IF r.raised /= ""
             THEN Raise("sdist", r.raised) /\ UNCHANGED name
             ELSE /\ name' = (IF r.pm.name = None THEN s_unknown ELSE r.pm.name)
                  /\ hook' = "sdist" /\ pc' = "s_metadata"
                  /\ UNCHANGED <<ran, error>>
    /\ UNCHANGED <<Config, SdistVars, WheelVars, read_result, copy_call>>

\* build_sdist 498-534: render PKG-INFO, parse its License-File lines, validate
SdistMetadata ==
    /\ hook = "sdist" /\ pc = "s_metadata"
    /\ LET rendered == _get_core_metadata_rfc822(SdistMd(project_metadata, name, version), fs)
           license_paths == _parse_license_file_paths_from_metadata_text(rendered.value)
       IN IF rendered.raised /= ""
          THEN Raise("sdist", rendered.raised)
               /\ UNCHANGED <<pkg_info_content, license_paths_sdist>>
          ELSE /\ pkg_info_content' = rendered.value
               /\ license_paths_sdist' = license_paths
               /\ IF _get_license_files_patterns(project_metadata) /= <<>> /\ license_paths = <<>>
                  THEN Raise("sdist", "NoLicenseFilesMatched")
                  ELSE IF _validate_license_files_patterns(project_metadata)
                  THEN Raise("sdist", "InvalidLicensePattern")
                  ELSE pc' = "s_manifest" /\ UNCHANGED <<hook, ran, error>>
    /\ UNCHANGED <<Config, project_metadata, version, name, reads, added_arcnames, tar,
                   sdist_file, WheelVars, read_result, copy_call>>

\* build_sdist 551-590: open the tarball, add the files of the include rules
SdistManifest ==
    /\ hook = "sdist" /\ pc = "s_manifest"
    /\ LET st == IncludeLoop([added |-> {}, members |-> <<>>], fs,
                             default_include \o pyproject.tool.sdist_include,
                             default_exclude \o pyproject.tool.sdist_exclude,
                             SdistName(name, version))
       IN /\ added_arcnames' = st.added
          /\ tar' = st.members
    /\ sdist_file' = "open"
    /\ pc' = "s_licenses"
    /\ UNCHANGED <<Config, hook, ran, project_metadata, version, name, reads, error,
                   pkg_info_content, license_paths_sdist, WheelVars, read_result, copy_call>>

\* build_sdist 592-602: add the files the License-File lines name
SdistLicenses ==
    /\ hook = "sdist" /\ pc = "s_licenses"
    /\ LET r == LicenseLoop([added |-> added_arcnames, members |-> tar], fs,
                            license_paths_sdist, SdistName(name, version))
       IN /\ added_arcnames' = r.st.added
          /\ tar' = r.st.members
          /\ IF r.raised /= ""
             THEN Raise("sdist", r.raised) /\ sdist_file' = "partial"
             ELSE pc' = "s_pkginfo" /\ UNCHANGED <<hook, ran, error, sdist_file>>
    /\ UNCHANGED <<Config, project_metadata, version, name, reads, pkg_info_content,
                   license_paths_sdist, WheelVars, read_result, copy_call>>

\* build_sdist 604-610: append the generated PKG-INFO, close the tarball, return
SdistPkgInfo ==
    /\ hook = "sdist" /\ pc = "s_pkginfo"
    /\ tar' = Append(tar, [src |-> Generated,
                           arcname |-> ArcName(SdistName(name, version), s_PKG_INFO)])
    /\ sdist_file' = "complete"
    /\ Return("sdist")
    /\ UNCHANGED <<Config, project_metadata, version, name, reads, pkg_info_content,
                   license_paths_sdist, added_arcnames, WheelVars, read_result, copy_call>>

\* build_wheel 322-336: read [project], resolve the version, normalize the name.
\* The front end asks for the sdist first and for the wheel next, as
\* test_sdist_pkg_info_and_wheel_metadata_identical does.
WheelStart ==
    /\ hook = "none" /\ "sdist" \in ran /\ "wheel" \notin ran
    /\ LET r == _resolve_version(pyproject.project, pyproject.tool, fs, vfile)
       IN /\ project_metadata' = r.pm
          /\ version' = r.version
          /\ reads' = reads \cup r.reads
          /\ IF r.raised /= ""
             THEN Raise("wheel", r.raised) /\ UNCHANGED name
             ELSE /\ name' = _normalize_name(IF r.pm.name = None THEN s_unknown ELSE r.pm.name)
                  /\ hook' = "wheel" /\ pc' = "w_stage"
                  /\ UNCHANGED <<ran, error>>
    /\ UNCHANGED <<Config, SdistVars, WheelVars, read_result, copy_call>>

\* _do_build_wheel 395-399: check the package roots, copy them into the staging tree
WheelStage ==
    /\ hook = "wheel" /\ pc = "w_stage"
    /\ LET pkgs == _get_wheel_packages(pyproject.tool, fs, name)
       IN IF pkgs.raised /= ""
          THEN /\ Raise("wheel", pkgs.raised)
               /\ staging' = _build_directory(build_dir, StagePackages(staging, fs, pkgs.dirs))
          ELSE /\ staging' = StagePackages(staging, fs, pkgs.dirs)
               /\ pc' = "w_conan"
               /\ UNCHANGED <<hook, ran, error>>
    /\ UNCHANGED <<Config, project_metadata, version, name, reads, SdistVars,
                   metadata_content, wheel_file, read_result, copy_call>>

\* _do_build_wheel 401-446: `conan build`, an external tool: it fails, or it
\* installs what it built into the staging tree
WheelConan ==
    /\ hook = "wheel" /\ pc = "w_conan"
    /\ \E ok \in BOOLEAN :
           IF ok
           THEN /\ staging' = staging \cup {s_core_so}
                /\ pc' = "w_distinfo"
                /\ UNCHANGED <<hook, ran, error>>
           ELSE /\ Raise("wheel", "ConanBuildFailed")
                /\ staging' = _build_directory(build_dir, staging)
    /\ UNCHANGED <<Config, project_metadata, version, name, reads, SdistVars,
                   metadata_content, wheel_file, read_result, copy_call>>

\* _do_build_wheel 449: _create_dist_info
WheelDistInfo ==
    /\ hook = "wheel" /\ pc = "w_distinfo"
    /\ LET r == _create_dist_info(staging, project_metadata, fs)
       IN IF r.raised /= ""
          THEN /\ Raise("wheel", r.raised)
               /\ staging' = _build_directory(build_dir, r.stage)
               /\ UNCHANGED metadata_content
          ELSE /\ staging' = r.stage
               /\ metadata_content' = r.content
               /\ pc' = "w_wheel"
               /\ UNCHANGED <<hook, ran, error>>
    /\ UNCHANGED <<Config, project_metadata, version, name, reads, SdistVars,
                   wheel_file, read_result, copy_call>>

\* _do_build_wheel 453-461, _build_wheel_with_tags: zip the staging tree, return
WheelWrite ==
    /\ hook = "wheel" /\ pc = "w_wheel"
    /\ wheel_file' = [built |-> TRUE, name |-> name, version |-> version, members |-> staging]
    /\ staging' = _build_directory(build_dir, staging)
    /\ Return("wheel")
    /\ UNCHANGED <<Config, project_metadata, version, name, reads, SdistVars,
                   metadata_content, read_result, copy_call>>

Next ==
    \/ SdistStart
    \/ SdistMetadata
    \/ SdistManifest
    \/ SdistLicenses
    \/ SdistPkgInfo
    \/ WheelStart
    \/ WheelStage
    \/ WheelConan
    \/ WheelDistInfo
    \/ WheelWrite

Spec == Init /\ [][Next]_vars

(***************************************************************************)
(* _read_version_from_file applied to every version-source file of at most *)
(* MaxStmts top-level statements.                                          *)
(***************************************************************************)
InitRead ==
    /\ vfile \in VersionFiles
    /\ pyproject = [project |-> Project(s_A_b, None, <<s_version>>, NoList),
                    tool |-> Tool(s_v_py, <<>>, <<>>)]
    /\ fs = {s_pyproject_toml} \cup (IF vfile.status = "missing" THEN {} ELSE {s_v_py})
    /\ build_dir = None
    /\ rebuilds = 0
    /\ hook = "read"
    /\ pc = "call"
    /\ ran = {}
    /\ project_metadata = Project(None, None, NoList, NoList)
    /\ version = None
    /\ name = None
    /\ reads = {}
    /\ error = [sdist |-> "", wheel |-> ""]
    /\ pkg_info_content = NoText
    /\ license_paths_sdist = <<>>
    /\ added_arcnames = {}
    /\ tar = <<>>
    /\ sdist_file = "absent"
    /\ staging = {}
    /\ metadata_content = NoText
    /\ wheel_file = NoWheel
    /\ read_result = Returned(None)
    /\ copy_call = NoCall

ReadVersion ==
    /\ hook = "read" /\ pc = "call"
    /\ read_result' = _read_version_from_file(IF s_v_py \in fs THEN vfile ELSE Missing)
    /\ reads' = reads \cup {s_v_py}
    /\ pc' = "returned"
    /\ UNCHANGED <<Config, hook, ran, project_metadata, version, name, error, SdistVars,
                   WheelVars, copy_call>>

NextRead == ReadVersion

SpecRead == InitRead /\ [][NextRead]_vars

(***************************************************************************)
(* build_wheel with declared package roots and with a build directory the  *)
(* caller supplies; pyproject.toml is edited between two runs of the       *)
(* hooks.                                                                  *)
(***************************************************************************)
PackageChoices ==
    {NoList, <<s_src_a_b>>, <<s_lib_c>>, <<s_src_a_b, s_lib_a_b>>, <<s_src_a_b, s_out_other>>,
     <<s_src_a_b, s_docs>>, <<s_src_a_b, s_missing_txt>>, <<s_src_a_b, s_lib_c>>}

PackageFiles ==
    {s_pyproject_toml, s_LICENSE, s_pkg_init,
     s_lib_a_b \o <<"/">> \o s_init_py, s_lib_a_b \o <<"/">> \o s_README_md,
     s_lib_c \o <<"/">> \o s_init_py,
     s_docs \o <<"/">> \o s_README_md,
     s_out_other \o <<"/">> \o s_init_py}

InitRebuild ==
    /\ \E lic \in {NoList, <<s_LICENSE>>, <<s_missing_txt>>}, pkgs \in PackageChoices :
           pyproject = [project |-> Project(s_A_b, s_1_0, NoList, lic),
                        tool |-> [Tool(None, <<>>, <<>>) EXCEPT !.wheel_packages = pkgs]]
    /\ fs = PackageFiles
    /\ vfile = Missing
    /\ build_dir \in {None, s_build_wheel}
    /\ rebuilds = 0
    /\ Idle

\* the developer edits pyproject.toml (a new version, or another list of package
\* roots); the front end runs the hooks again
EditProject ==
    /\ hook = "none" /\ "wheel" \in ran
    /\ rebuilds < MaxRebuilds
    /\ pyproject' \in
           ({[pyproject EXCEPT !.project.version = pyproject.project.version \o <<".", "1">>]}
            \cup {[pyproject EXCEPT !.tool.wheel_packages = pkgs] :
                      pkgs \in {<<s_src_a_b>>, <<s_lib_c>>}})
           \ {pyproject}
    /\ rebuilds' = rebuilds + 1
    /\ ran' = {}
    /\ error' = [sdist |-> "", wheel |-> ""]
    /\ UNCHANGED <<fs, vfile, build_dir, hook, pc, project_metadata, version, name, reads,
                   SdistVars, WheelVars, read_result, copy_call>>

NextRebuild == Next \/ EditProject

SpecRebuild == InitRebuild /\ [][NextRebuild]_vars

(***************************************************************************)
(* _copy_license_files_from_paths called on its own, as the unit tests do, *)
(* with a list of paths into an empty dist-info directory.                 *)
(***************************************************************************)
LicensePathChoices ==
    {s_LICENSE, s_docs \o <<"/">> \o s_README_md, <<".", "/">> \o s_LICENSE, s_docs,
     s_missing_txt, s_dd_LICENSE, s_out_other \o <<"/">> \o s_init_py, s_etc_motd}

InitCopy ==
    /\ pyproject = [project |-> Project(s_A_b, s_1_0, NoList, NoList), tool |-> Tool(None, <<>>, <<>>)]
    /\ fs = PackageFiles \cup {s_etc_motd}
    /\ vfile = Missing
    /\ build_dir = None
    /\ rebuilds = 0
    /\ hook = "copy"
    /\ pc = "call"
    /\ ran = {}
    /\ project_metadata = Project(None, None, NoList, NoList)
    /\ version = None
    /\ name = None
    /\ reads = {}
    /\ error = [sdist |-> "", wheel |-> ""]
    /\ pkg_info_content = NoText
    /\ license_paths_sdist = <<>>
    /\ added_arcnames = {}
    /\ tar = <<>>
    /\ sdist_file = "absent"
    /\ staging = {}
    /\ metadata_content = NoText
    /\ wheel_file = NoWheel
    /\ read_result = Returned(None)
    /\ copy_call \in {[NoCall EXCEPT !.license_paths = paths] :
                         paths \in SeqsUpTo(LicensePathChoices, MaxPaths)}

CopyLicenses ==
    /\ hook = "copy" /\ pc = "call"
    /\ copy_call' =
           LET r == _copy_license_files_from_paths({}, DistInfoName(pyproject.project), fs,
                                                   copy_call.license_paths)
           IN [called |-> TRUE, license_paths |-> copy_call.license_paths,
               raised |-> r.raised, stage |-> r.stage]
    /\ pc' = "returned"
    /\ UNCHANGED <<Config, hook, ran, project_metadata, version, name, reads, error, SdistVars,
                   WheelVars, read_result>>

SpecCopy == InitCopy /\ [][CopyLicenses]_vars

(***************************************************************************)
(* Properties.                                                             *)
(***************************************************************************)
Started == ran /= {} \/ hook /= "none"
Underway == hook \in {"sdist", "wheel"}
BothRan == ran = {"sdist", "wheel"}
ResolveErrors == {"VersionUnresolved", "VersionFileOutsideProject", "UnicodeDecodeError"}
ArcNamesOf(members) == {members[i].arcname : i \in 1..Len(members)}
PkgInfoArcName == ArcName(SdistName(name, version), s_PKG_INFO)
ExcludePatterns == default_exclude \o pyproject.tool.sdist_exclude
IncludePatterns == default_include \o pyproject.tool.sdist_include

PkgInfoWritten == sdist_file = "complete"

\* build_sdist has just returned: name and version are still its locals
SdistReturned == PkgInfoWritten /\ hook = "none" /\ ran = {"sdist"}
MetadataWritten == metadata_content /= NoText

\* C1: for one project and one snapshot, the text build_sdist writes as PKG-INFO and
\* the text build_wheel writes as METADATA are the same string.
C1_SameMetadata ==
    (PkgInfoWritten /\ MetadataWritten) => pkg_info_content = metadata_content

C1_Witness ==
    /\ PkgInfoWritten /\ MetadataWritten
    /\ wheel_file.built
    /\ _normalize_name(pyproject.project.name) /= pyproject.project.name
    /\ \E i \in 1..Len(metadata_content) : StartsWith(metadata_content[i], s_License_File)

\* C2: once the include rules are processed, no member of the archive is a file that
\* matches an exclude rule, whichever shape of include rule produced it.
C2_ExcludedNeverIncluded ==
    (hook = "sdist" /\ pc = "s_licenses") =>
        \A i \in 1..Len(tar) : ~should_exclude(tar[i].src, ExcludePatterns)

\* the pairs the include rules yield, in rule order
RECURSIVE PairsOfRules(_)
PairsOfRules(patterns) ==
    IF patterns = <<>> THEN <<>>
    ELSE [i \in 1..Len(IncludeRule(fs, Head(patterns), ExcludePatterns)) |->
             [src |-> IncludeRule(fs, Head(patterns), ExcludePatterns)[i].src,
              arcname |-> ArcName(SdistName(name, version),
                                  IncludeRule(fs, Head(patterns), ExcludePatterns)[i].rel)]]
         \o PairsOfRules(Tail(patterns))

\* a list of pairs without the pairs whose archive path occurred before
RECURSIVE FirstPairs(_)
FirstPairs(pairs) ==
    IF pairs = <<>> THEN <<>>
    ELSE LET r == FirstPairs(SubSeq(pairs, 1, Len(pairs) - 1))
         IN IF pairs[Len(pairs)].arcname \in ArcNamesOf(r) THEN r
            ELSE Append(r, pairs[Len(pairs)])

FromProject(members) == SelectSeq(members, LAMBDA m : m.src /= Generated)

MoreRules ==
    {s_src, s_src_star, s_starstar_py, s_README_md, s_LICENSE, s_NOTICE, s_PKG_INFO,
     s_pyproject_toml, s_LICENSE_star}

OnlyKnownPaths(rule) ==
    /\ IncludeRule(fs, rule, ExcludePatterns) /= <<>>
    /\ \A i \in 1..Len(IncludeRule(fs, rule, ExcludePatterns)) :
           ArcName(SdistName(name, version), IncludeRule(fs, rule, ExcludePatterns)[i].rel)
               \in added_arcnames

\* C3: among the members added by the include rules and the forced license files no
\* archive path occurs twice; the members are the first pair of each archive path, in
\* the order computed; one more include rule that yields only archive paths already
\* included leaves the member list unchanged.
C3_FirstPairWins ==
    /\ \A i, j \in 1..Len(FromProject(tar)) :
           i /= j => FromProject(tar)[i].arcname /= FromProject(tar)[j].arcname
    /\ (hook = "sdist" /\ pc = "s_licenses") =>
           /\ tar = FirstPairs(PairsOfRules(IncludePatterns))
           /\ \A rule \in MoreRules :
                  OnlyKnownPaths(rule) =>
                      IncludeLoop([added |-> added_arcnames, members |-> tar], fs, <<rule>>,
                                  ExcludePatterns, SdistName(name, version)).members = tar
    /\ (hook = "sdist" /\ pc = "s_pkginfo") =>
           \A i \in 1..Len(license_paths_sdist) :
               ArcName(SdistName(name, version), license_paths_sdist[i]) \in ArcNamesOf(tar)

C3_Witness ==
    /\ hook = "sdist" /\ pc = "s_pkginfo"
    /\ Len(PairsOfRules(IncludePatterns)) > Len(FirstPairs(PairsOfRules(IncludePatterns)))
    /\ \E i \in 1..Len(license_paths_sdist) :
           \E j \in 1..Len(PairsOfRules(IncludePatterns)) :
               PairsOfRules(IncludePatterns)[j].arcname
                   = ArcName(SdistName(name, version), license_paths_sdist[i])
    /\ \E rule \in MoreRules : OnlyKnownPaths(rule)

\* the path a License-File line of the metadata text lists
LicenseFileListed(text) ==
    {SubSeq(text[i], Len(s_License_File) + 2, Len(text[i])) :
        i \in {k \in 1..Len(text) : StartsWith(text[k], s_License_File)}}

\* C4: every license path a License-File line of the generated PKG-INFO lists is a
\* member of the completed archive at <name>-<version>/<path>.
C4_LicensesInArchive ==
    SdistReturned =>
        \A path \in LicenseFileListed(pkg_info_content) :
            ArcName(SdistName(name, version), path) \in ArcNamesOf(tar)

\* C5: in a completed archive the generated PKG-INFO is the last member and its archive
\* path occurs at no earlier position.
C5_PkgInfoLastOnly ==
    SdistReturned =>
        /\ tar[Len(tar)] = [src |-> Generated, arcname |-> ArcName(SdistName(name, version), s_PKG_INFO)]
        /\ \A i \in 1..(Len(tar) - 1) :
               tar[i].arcname /= ArcName(SdistName(name, version), s_PKG_INFO)

VersionFileYieldsNothing ==
    \/ Falsy(pyproject.tool.version_file)
    \/ Join(Resolve(pyproject.tool.version_file), "/") \notin fs
    \/ vfile.status /= "ok"
    \/ ScanBody(vfile.body) = None

\* C6: with "version" dynamic, no static version and a version-file that is absent or
\* yields no string literal, _resolve_version raises and never returns "0.0.0", and
\* neither hook produces an archive.
C6_DynamicUnresolvedFails ==
    (/\ IsDynamicVersion(pyproject.project)
     /\ Falsy(pyproject.project.version)
     /\ VersionFileYieldsNothing) =>
        /\ hook = "none"
        /\ version = None
        /\ \A h \in ran : error[h] \in ResolveErrors
        /\ sdist_file = "absent" /\ tar = <<>>
        /\ ~wheel_file.built /\ staging = {} /\ metadata_content = NoText

C6_Witness ==
    /\ IsDynamicVersion(pyproject.project)
    /\ Falsy(pyproject.project.version)
    /\ VersionFileYieldsNothing
    /\ pyproject.tool.version_file \in fs
    /\ BothRan
    /\ error = [sdist |-> "VersionUnresolved", wheel |-> "VersionUnresolved"]

\* C7 as claimed: with no static version and "version" not dynamic, _resolve_version
\* returns "0.0.0" and does not fail, whatever the tool configuration contains.
C7_AlwaysDefault ==
    (Started /\ Falsy(pyproject.project.version) /\ ~IsDynamicVersion(pyproject.project)) =>
        version = s_0_0_0

VersionFileSilent ==
    \/ Falsy(pyproject.tool.version_file)
    \/ /\ InsideRoot(pyproject.tool.version_file)
       /\ \/ Join(Resolve(pyproject.tool.version_file), "/") \notin fs
          \/ vfile.status = "syntaxerror"
          \/ vfile.status = "ok" /\ Falsy(ScanBody(vfile.body))

\* C7 as amended: with no static version and "version" not dynamic, _resolve_version
\* returns "0.0.0" and does not fail when no version-file is configured, or when the
\* version-file lies inside the root and is missing, has a syntax error or assigns no
\* non-empty string literal to __version__.
C7_DefaultWithoutFileVersion ==
    (/\ Started
     /\ Falsy(pyproject.project.version)
     /\ ~IsDynamicVersion(pyproject.project)
     /\ VersionFileSilent) =>
        /\ version = s_0_0_0
        /\ \A h \in ran : error[h] \notin ResolveErrors

C7_Witness ==
    /\ BothRan
    /\ Falsy(pyproject.project.version)
    /\ ~IsDynamicVersion(pyproject.project)
    /\ ~Falsy(pyproject.tool.version_file)
    /\ VersionFileSilent
    /\ version = s_0_0_0
    /\ wheel_file.built

\* C8 as claimed: after _resolve_version has returned, the project metadata object has a
\* non-empty version and a dynamic list without "version".
C8_VersionSetDynamicCleared ==
    Underway =>
        /\ ~Falsy(project_metadata.version)
        /\ s_version \notin Range(project_metadata.dynamic)

\* C8 as amended: after _resolve_version has returned, the project metadata object has
\* the resolved, non-empty version and its dynamic list as it was declared; "version"
\* is dropped only from the copy _get_core_metadata_rfc822 renders, so that no
\* metadata text has a "Dynamic: version" line.
C8_VersionSetDynamicKept ==
    /\ Underway =>
           /\ ~Falsy(project_metadata.version)
           /\ project_metadata.version = version
           /\ project_metadata.dynamic = pyproject.project.dynamic
    /\ (s_Dynamic \o s_version) \notin Range(pkg_info_content) \cup Range(metadata_content)

C8_Witness ==
    /\ hook = "wheel" /\ pc = "w_wheel"
    /\ IsDynamicVersion(project_metadata)
    /\ Falsy(pyproject.project.version)
    /\ MetadataWritten /\ pkg_info_content /= NoText

AssignsVersion(node) ==
    /\ node.kind \in {"Assign", "AnnAssign"}
    /\ node.value /= NoV
    /\ \E i \in 1..Len(node.targets) : node.targets[i] = NameT(VER)

VersionStmts(body) == {i \in 1..Len(body) : AssignsVersion(body[i])}

TheVersionStmt(body) == body[CHOOSE i \in VersionStmts(body) : TRUE]

\* C9: _read_version_from_file never raises; for a file with exactly one module-level
\* assignment to __version__, single-target (plain or annotated) and of a string
\* literal "X", it returns "X"; for a file with one assignment of another shape, with
\* no assignment to __version__, that cannot be parsed or that is missing, it returns
\* None.
C9_ReadVersion ==
    (hook = "read" /\ pc = "returned") =>
        /\ read_result.raised = ""
        /\ (vfile.status = "ok" /\ Cardinality(VersionStmts(vfile.body)) = 1) =>
               read_result.value =
                   IF /\ Len(TheVersionStmt(vfile.body).targets) = 1
                      /\ TheVersionStmt(vfile.body).value.py = "str"
                   THEN TheVersionStmt(vfile.body).value.value
                   ELSE None
        /\ (vfile.status /= "ok" \/ VersionStmts(vfile.body) = {}) =>
               read_result.value = None

OutsidePaths == {f \in fs \cup reads : ~InsideRoot(f)}

VersionFileOutside ==
    ~Falsy(pyproject.tool.version_file) /\ ~InsideRoot(pyproject.tool.version_file)

\* C10 as claimed: for every project whose version-file resolves outside the project
\* root, version resolution fails and returns no version, and the file is never read.
C10_OutsideAlwaysFails ==
    (Started /\ VersionFileOutside) =>
        /\ hook = "none" /\ version = None
        /\ \A h \in ran : error[h] = "VersionFileOutsideProject"
        /\ reads \cap OutsidePaths = {}

\* C10 as amended: for every project without a static [project].version whose
\* version-file resolves outside the project root, version resolution fails and
\* returns no version; with a static version the version-file is not consulted and
\* the static version is returned; in both cases the file is never read.
C10_OutsideFailsWhenConsulted ==
    (Started /\ VersionFileOutside) =>
        /\ reads \cap OutsidePaths = {}
        /\ Falsy(pyproject.project.version) =>
               /\ hook = "none" /\ version = None
               /\ \A h \in ran : error[h] = "VersionFileOutsideProject"
        /\ ~Falsy(pyproject.project.version) => version = pyproject.project.version

C10_Witness ==
    /\ VersionFileOutside
    /\ Falsy(pyproject.project.version)
    /\ pyproject.tool.version_file \in fs
    /\ vfile.status = "ok" /\ ~Falsy(ScanBody(vfile.body))
    /\ BothRan
    /\ error = [sdist |-> "VersionFileOutsideProject", wheel |-> "VersionFileOutsideProject"]

HasDotDot(p) == <<".", ".">> \in Range(Parts(p))

DotDotLicensePattern ==
    \E i \in 1..Len(pyproject.project.license_files) : HasDotDot(pyproject.project.license_files[i])

DotDotVersionFile ==
    ~Falsy(pyproject.tool.version_file) /\ HasDotDot(pyproject.tool.version_file)

NoHookSucceeded ==
    /\ \A h \in ran : error[h] /= ""
    /\ sdist_file = "absent" /\ tar = <<>>
    /\ metadata_content = NoText
    /\ ~wheel_file.built
    /\ \A f \in staging : ~Contains(f, s_dist_info)

\* C11: a license-files pattern or a version-file path with a ".." segment makes every
\* invocation raise: no hook completes, build_sdist writes no archive, no license file
\* is copied, no METADATA is written, and the version-file is never read.
C11_TraversalAlwaysRaises ==
    (DotDotLicensePattern \/ DotDotVersionFile) =>
        /\ NoHookSucceeded
        /\ pc \notin {"s_manifest", "s_licenses", "s_pkginfo", "w_wheel"}
        /\ DotDotVersionFile => reads = {}

\* C11, the half about license-files that the code keeps: with a ".." pattern no hook
\* completes and nothing is written.
C11_LicenseTraversalRaises ==
    DotDotLicensePattern =>
        /\ NoHookSucceeded
        /\ pc \notin {"s_manifest", "s_licenses", "s_pkginfo", "w_wheel"}

C11_LicenseTraversalWitness ==
    /\ DotDotLicensePattern /\ BothRan
    /\ error = [sdist |-> "InvalidLicensePattern", wheel |-> "InvalidLicensePattern"]

\* what ends build_wheel before _create_dist_info is called
EarlierWheelErrors ==
    {"PackageOutsideSource", "PackageNotADirectory", "PackageWithoutInit", "ConanBuildFailed"}

NoLicenseMatch ==
    /\ pyproject.project.license_files /= <<>>
    /\ \A i \in 1..Len(pyproject.project.license_files) :
           {f \in GlobFiles(fs, pyproject.project.license_files[i], FALSE) : InsideRoot(f)} = {}

\* C12: when license-files is a non-empty pattern list and no file under the project
\* root matches, the rendering of the metadata fails in build_sdist and in
\* _create_dist_info: no hook completes, no tarball is created, no METADATA and no
\* wheel is written.
C12_NoLicenseMatchFails ==
    NoLicenseMatch =>
        /\ NoHookSucceeded
        /\ pc \notin {"s_manifest", "s_licenses", "s_pkginfo", "w_wheel"}
        /\ "sdist" \in ran => error.sdist = "ConfigurationError"
        /\ "wheel" \in ran => error.wheel \in {"ConfigurationError", "InvalidLicensePattern"}
                                                \cup EarlierWheelErrors

C12_Witness ==
    /\ NoLicenseMatch /\ BothRan
    /\ pyproject.project.license_files = <<s_missing_txt>>
    /\ fs \cap {s_LICENSE, s_NOTICE} /= {}
    /\ error = [sdist |-> "ConfigurationError", wheel |-> "ConfigurationError"]

PackageErrors == {"PackageOutsideSource", "PackageNotADirectory", "PackageWithoutInit"}

PackageRoots ==
    WheelPackageList(pyproject.tool,
                     _normalize_name(IF pyproject.project.name = None THEN s_unknown
                                     ELSE pyproject.project.name))

BadRoot == \E i \in 1..Len(PackageRoots) : _check_wheel_package_path(fs, PackageRoots[i]) /= ""

\* C13: every package root is checked for lying inside the project root, being a
\* directory and holding __init__.py; when a root fails, build_wheel raises that error,
\* never reaches the external build, and no step of the run changes the staging tree
\* or the wheel.
C13_RootsCheckedBeforeCopy ==
    /\ [](BadRoot =>
             /\ ~(hook = "wheel" /\ pc \in {"w_conan", "w_distinfo", "w_wheel"})
             /\ "wheel" \in ran => error.wheel \in PackageErrors
             /\ rebuilds = 0 => (staging = {} /\ ~wheel_file.built))
    /\ [][BadRoot => (staging' = staging /\ wheel_file' = wheel_file)]_vars

C13_Witness ==
    /\ BadRoot /\ "wheel" \in ran
    /\ build_dir = s_build_wheel
    /\ Len(PackageRoots) = 2 /\ _check_wheel_package_path(fs, PackageRoots[1]) = ""
    /\ error.wheel = "PackageOutsideSource"
    /\ staging = {}

\* C14: whenever build_sdist or build_wheel has raised, the output directory holds no
\* archive file of that invocation, complete or partial.
C14_NoArchiveOnFailure ==
    /\ ("sdist" \in ran /\ error.sdist /= "") => sdist_file = "absent"
    /\ ("wheel" \in ran /\ error.wheel /= "") => ~wheel_file.built

\* C15: when config_settings supplies no build-dir, nothing of the staging tree exists
\* outside a running build_wheel: the temporary directory is gone once build_wheel has
\* returned or raised, whichever step ended it.
C15_TemporaryStagingRemoved ==
    (Falsy(build_dir) /\ hook /= "wheel") => staging = {}

C15_Witness ==
    /\ Falsy(build_dir)
    /\ "wheel" \in ran
    /\ error.wheel \in {"ConfigurationError", "FileNotFoundError"}
    /\ _get_wheel_packages(pyproject.tool, fs, name).raised = ""
    /\ staging = {}

\* C16: every file build_sdist adds lies inside the project root, and its archive path
\* is <name>-<version>/<path relative to the root>, without a ".." segment.
C16_MembersInsideRoot ==
    hook = "sdist" =>
        \A i \in 1..Len(tar) :
            tar[i].src /= Generated =>
                /\ InsideRoot(tar[i].src)
                /\ tar[i].arcname = ArcName(SdistName(name, version), tar[i].src)
                /\ ~HasDotDot(tar[i].arcname)

\* the checks a listed path must pass, and the place of its copy
CopyAllowed(p) == ~Contains(p, <<".", ".">>) /\ IsFile(fs, p) /\ InsideRoot(p)

LicensesDirPrefix == DistInfoName(pyproject.project) \o <<"/">> \o s_licenses \o <<"/">>

CopyDest(p) == LicensesDirPrefix \o Join(Parts(p), "/")

\* C17: _copy_license_files_from_paths returns normally exactly when every listed path
\* contains no "..", names an existing file and lies inside the project root; the
\* copies made are those of the paths before the first failing one, each at
\* <dist-info>/licenses/<path relative to the root>, and nothing is written elsewhere.
C17_CopyChecked ==
    copy_call.called =>
        LET license_paths == copy_call.license_paths
            copied == {i \in 1..Len(license_paths) :
                          \A j \in 1..i : CopyAllowed(license_paths[j])}
        IN /\ copy_call.raised = "" <=>
                  \A i \in 1..Len(license_paths) : CopyAllowed(license_paths[i])
           /\ copy_call.stage = {CopyDest(license_paths[i]) : i \in copied}
           /\ \A f \in copy_call.stage : StartsWith(f, LicensesDirPrefix) /\ ~HasDotDot(f)

C17_Witness ==
    /\ copy_call.called
    /\ copy_call.license_paths = <<s_docs \o <<"/">> \o s_README_md, s_etc_motd>>
    /\ copy_call.raised = "LicenseOutsideProject"
    /\ copy_call.stage = {LicensesDirPrefix \o s_docs \o <<"/">> \o s_README_md}

C18_SdistSteps == <<"s_metadata", "s_manifest", "s_licenses", "s_pkginfo">>

C18_WheelSteps == <<"w_stage", "w_conan", "w_distinfo", "w_wheel">>

\* what has and has not been done when a step of build_sdist is about to run
C18_SdistStepStates ==
    hook = "sdist" =>
        /\ project_metadata.version = version /\ ~Falsy(version)
        /\ pc = "s_metadata" =>
               pkg_info_content = NoText /\ sdist_file = "absent" /\ tar = <<>>
        /\ pc = "s_manifest" =>
               /\ pkg_info_content /= NoText
               /\ license_paths_sdist =
                      _parse_license_file_paths_from_metadata_text(pkg_info_content)
               /\ ~_validate_license_files_patterns(project_metadata)
               /\ sdist_file = "absent" /\ tar = <<>>
        /\ pc \in {"s_licenses", "s_pkginfo"} =>
               /\ pkg_info_content /= NoText
               /\ sdist_file = "open"
               /\ \A i \in 1..Len(tar) : tar[i].src /= Generated
        /\ pc = "s_pkginfo" =>
               \A i \in 1..Len(license_paths_sdist) :
                   ArcName(SdistName(name, version), license_paths_sdist[i]) \in added_arcnames

\* what has and has not been done when a step of build_wheel is about to run
C18_WheelStepStates ==
    hook = "wheel" =>
        /\ project_metadata.version = version /\ ~Falsy(version)
        /\ ~wheel_file.built
        /\ pc \in {"w_stage", "w_conan", "w_distinfo"} =>
               /\ metadata_content = NoText
               /\ \A f \in staging : ~Contains(f, s_dist_info)
        /\ pc = "w_stage" => staging = {}
        /\ pc = "w_conan" =>
               staging = StagePackages({}, fs, _get_wheel_packages(pyproject.tool, fs, name).dirs)
        /\ pc \in {"w_distinfo", "w_wheel"} => s_core_so \in staging
        /\ pc = "w_wheel" =>
               /\ metadata_content /= NoText
               /\ ~_validate_license_files_patterns(project_metadata)
               /\ Join(<<DistInfoName(project_metadata), s_METADATA>>, "/") \in staging

\* the patterns are validated after the metadata text is rendered in build_sdist and
\* before it in _create_dist_info
C18_ValidationPlace ==
    /\ error.sdist = "InvalidLicensePattern" => pkg_info_content /= NoText
    /\ ("wheel" \in ran /\ DotDotLicensePattern /\ error.wheel \notin EarlierWheelErrors) =>
           error.wheel = "InvalidLicensePattern"

C18_NextStep ==
    /\ (hook = "sdist" /\ hook' = "sdist") =>
           \E i \in 1..3 : pc = C18_SdistSteps[i] /\ pc' = C18_SdistSteps[i + 1]
    /\ (hook = "wheel" /\ hook' = "wheel") =>
           \E i \in 1..3 : pc = C18_WheelSteps[i] /\ pc' = C18_WheelSteps[i + 1]
    /\ (hook = "none" /\ hook' = "sdist") => pc' = "s_metadata"
    /\ (hook = "none" /\ hook' = "wheel") => pc' = "w_stage"
    /\ sdist_file' = "complete" => (sdist_file = "complete" \/ pc = "s_pkginfo")
    /\ (wheel_file'.built /\ ~wheel_file.built) => pc = "w_wheel"

StagedByInvocation ==
    _create_dist_info(
        StagePackages({}, fs, _get_wheel_packages(pyproject.tool, fs, name).dirs) \cup {s_core_so},
        project_metadata, fs).stage

\* C19: the wheel an invocation of build_wheel produces holds only files that invocation
\* staged, whatever earlier invocations left in the build directory.
C19_OnlyOwnFiles ==
    (hook = "none" /\ "wheel" \in ran /\ error.wheel = "") =>
        wheel_file.members \subseteq StagedByInvocation

\* the paths of the License-File lines of a metadata text, in the order of the lines
LicenseFileLinePaths(text) ==
    LET lines == SelectSeq(text, LAMBDA line : StartsWith(line, s_License_File))
    IN [i \in 1..Len(lines) |-> SubSeq(lines[i], Len(s_License_File) + 2, Len(lines[i]))]

\* C20: _parse_license_file_paths_from_metadata_text applied to a metadata text returns
\* the paths of its License-File lines, one per line and in the order of the lines,
\* none split, merged or dropped.
C20_LicensePathsRoundTrip ==
    (hook = "sdist" /\ pc \in {"s_manifest", "s_licenses", "s_pkginfo"}) =>
        license_paths_sdist = LicenseFileLinePaths(pkg_info_content)

\* the files of the staging tree below the directory a package root is copied to,
\* base_dir / "package" / <last segment of the root>
StagedDirectoryOf(root) ==
    {f \in staging : Parts(f)[1] = Resolve(root)[Len(Resolve(root))]}

\* C21: when the declared package roots are distinct directories of the project, the
\* directory of the staging tree each one is copied to holds the files of that root
\* only, and no staged file comes from two roots.
C21_PackagesStagedApart ==
    (hook = "wheel" /\ pc = "w_conan" /\ rebuilds = 0) =>
        \A i, j \in 1..Len(PackageRoots) :
            Resolve(PackageRoots[i]) /= Resolve(PackageRoots[j]) =>
                /\ StagedDirectoryOf(PackageRoots[i]) = CopyTree(fs, PackageRoots[i])
                /\ CopyTree(fs, PackageRoots[i]) \cap CopyTree(fs, PackageRoots[j]) = {}

====
